---- MODULE Spec2Model ----
(***************************************************************************)
(* State-machine model of snooty/language_server.py: the LanguageServer    *)
(* session (project handle, workspace map, diagnostics map), the debounce  *)
(* decorator with its threading.Timer threads, the set_diagnostics         *)
(* callback, the parent-process watchdog and the URI <-> FileId resolver.  *)
(*                                                                         *)
(* Strings that the code parses (URIs, paths, FileIds) are sequences of    *)
(* one-character strings, so that urlparse, Path and str are computed.     *)
(***************************************************************************)
EXTENDS Integers, Sequences, FiniteSets, TLC

(***************************************************************************)
(* Bounds of the model                                                     *)
(***************************************************************************)
\* longest FileId (in characters) the resolver specification enumerates
MaxFileIdLen == 3
\* Project instances one session constructs (initialize calls with a rootUri)
MaxProjects == 1
\* watch_parent_process chains one session starts (initialize calls with a processId)
MaxWatchdogs == 2
\* m_exit calls one watchdog chain makes before the model stops counting
MaxExits == 2
\* WorkspaceEntry objects didOpen allocates
MaxOpens == 2
\* didChange notifications (threading.Timer objects of debounce)
MaxChanges == 2
\* set_diagnostics calls of the Project (all of them may overlap, with each
\* other and with the dispatcher)
MaxDiagCalls == 2

\* debounce(0.2): the quiet window, in clock ticks of 100 ms
Window == 2

(***************************************************************************)
(* Characters and string helpers                                           *)
(***************************************************************************)
None == "None"

SchemeChars == {"a", "b", "e", "f", "h", "i", "l", "p", "r", "t", "+", "-", "."}

\* the element of a one-element set
The(S) == CHOOSE x \in S : TRUE

\* s[i..] (1-based), the empty string when i > Len(s)
Drop(s, i) == SubSeq(s, i, Len(s))

\* s[..i-1]
Take(s, i) == SubSeq(s, 1, i - 1)

\* index of the first character of s that lies in cs, or 0 (str.find)
FindFirstIn(s, cs) ==
    IF \E i \in 1..Len(s) : s[i] \in cs
    THEN CHOOSE i \in 1..Len(s) : s[i] \in cs /\ \A j \in 1..(i - 1) : s[j] \notin cs
    ELSE 0

\* (the string is bound as a value, so that it is computed once)
FindFirst(s, cs) == The({FindFirstIn(v, cs) : v \in {s}})

StartsWith(s, p) == Len(s) >= Len(p) /\ SubSeq(s, 1, Len(p)) = p

\* str.replace(old, "", 1): remove the first occurrence of p in s
RemoveFirst(s, p) ==
    IF \E i \in 1..(Len(s) - Len(p) + 1) : SubSeq(s, i, i + Len(p) - 1) = p
    THEN LET i == CHOOSE k \in 1..(Len(s) - Len(p) + 1) :
                      /\ SubSeq(s, k, k + Len(p) - 1) = p
                      /\ \A j \in 1..(k - 1) : SubSeq(s, j, j + Len(p) - 1) # p
         IN  Take(s, i) \o Drop(s, i + Len(p))
    ELSE s

FileSlashSlash == <<"f", "i", "l", "e", ":", "/", "/">>
FileScheme == <<"f", "i", "l", "e">>

(***************************************************************************)
(* urllib.parse.urlparse: scheme, netloc, path (query and fragment are     *)
(* split off the path and not used by the server)                          *)
(***************************************************************************)
\* the scheme: the characters before the first ':', when they are scheme
\* characters
SplitScheme(uri) ==
    LET c == FindFirstIn(uri, {":"})
        hasScheme == c > 1 /\ \A j \in 1..(c - 1) : uri[j] \in SchemeChars
    IN  [scheme |-> IF hasScheme THEN Take(uri, c) ELSE <<>>,
         rest |-> IF hasScheme THEN Drop(uri, c + 1) ELSE uri]

\* the netloc: after a leading "//", up to the first '/', '?' or '#'
SplitNetloc(rest) ==
    LET hasNetloc == StartsWith(rest, <<"/", "/">>)
        afterSl == Drop(rest, 3)
        d == FindFirstIn(afterSl, {"/", "?", "#"})
    IN  [netloc |-> IF ~hasNetloc THEN <<>>
                    ELSE IF d = 0 THEN afterSl ELSE Take(afterSl, d),
         rest |-> IF ~hasNetloc THEN rest
                  ELSE IF d = 0 THEN <<>> ELSE Drop(afterSl, d)]

\* the path: what is left without the fragment (from '#') and without the
\* query (from '?')
SplitPath(rest) ==
    LET h == FindFirstIn(rest, {"#"})
        noFragment == IF h = 0 THEN rest ELSE Take(rest, h)
        q == FindFirstIn(noFragment, {"?"})
    IN  IF q = 0 THEN noFragment ELSE Take(noFragment, q)

\* (each part is bound as a value, so that it is computed once)
urlparse(uri) ==
    The({The({[scheme |-> s.scheme, netloc |-> n.netloc,
               path |-> The({SplitPath(r) : r \in {n.rest}})]
              : n \in {SplitNetloc(s.rest)}})
         : s \in {SplitScheme(uri)}})

(***************************************************************************)
(* pathlib: a path is [root, segs]; root is the number of leading slashes  *)
(* pathlib keeps (0 relative, 1 absolute, 2 the POSIX "//" root)           *)
(***************************************************************************)
RECURSIVE SplitSlash(_)
\* str.split("/") without the empty pieces
SplitSlash(s) ==
    IF s = <<>> THEN <<>>
    ELSE The({IF i = 0 THEN <<s>>
              ELSE The({IF i = 1 THEN SplitSlash(rest)
                        ELSE <<Take(s, i)>> \o SplitSlash(rest)
                        : rest \in {Drop(s, i + 1)}})
              : i \in {FindFirst(s, {"/"})}})

LeadingSlashes(s) ==
    IF s = <<>> \/ s[1] # "/" THEN 0
    ELSE IF Len(s) >= 2 /\ s[2] = "/" /\ ~(Len(s) >= 3 /\ s[3] = "/") THEN 2
    ELSE 1

Dot == <<".">>
DotDot == <<".", ".">>

\* PurePosixPath(s): empty and "." segments are dropped, ".." is kept
PathOf(s) ==
    The({[root |-> LeadingSlashes(v),
          segs |-> SelectSeq(SplitSlash(v), LAMBDA x : x # Dot)] : v \in {s}})

\* a.joinpath(b): an absolute b replaces a
joinpath(a, b) ==
    IF b.root > 0 THEN b ELSE [root |-> a.root, segs |-> a.segs \o b.segs]

RECURSIVE JoinSegs(_)
JoinSegs(segs) ==
    IF segs = <<>> THEN <<>>
    ELSE IF Len(segs) = 1 THEN segs[1]
    ELSE segs[1] \o <<"/">> \o JoinSegs(Tail(segs))

\* str(path)
PathStr(p) ==
    IF p.root = 0 /\ p.segs = <<>> THEN Dot
    ELSE (IF p.root = 2 THEN <<"/", "/">> ELSE IF p.root = 1 THEN <<"/">> ELSE <<>>)
         \o JoinSegs(p.segs)

\* the working directory of the server process, used by Path.resolve for a
\* relative path
Cwd == [root |-> 1, segs |-> <<<<"w">>>>]

RECURSIVE CollapseDotDot(_, _)
CollapseDotDot(done, todo) ==
    IF todo = <<>> THEN done
    ELSE IF todo[1] = DotDot
         THEN CollapseDotDot(IF done = <<>> THEN <<>> ELSE Take(done, Len(done)),
                             Tail(todo))
         ELSE CollapseDotDot(Append(done, todo[1]), Tail(todo))

\* Path.resolve() on a file system without symbolic links: make absolute,
\* fold ".." segments
resolve(p) ==
    The({[root |-> abs.root, segs |-> CollapseDotDot(<<>>, abs.segs)]
         : abs \in {IF p.root = 0 THEN joinpath(Cwd, p) ELSE p}})

(***************************************************************************)
(* Inputs of the session                                                   *)
(***************************************************************************)
RootUri == <<"f", "i", "l", "e", ":", "/", "/", "/", "r">>
UriA == <<"f", "i", "l", "e", ":", "/", "/", "/", "r", "/", "a">>
UriB == <<"f", "i", "l", "e", ":", "/", "/", "/", "r", "/", "b">>
UriHttp == <<"h", "t", "t", "p", ":", "/", "/", "r", "/", "a">>
\* the document of UriA, written with a "." segment
UriDotA == <<"f", "i", "l", "e", ":", "/", "/", "/", "r", "/", ".", "/", "a">>

\* document URIs the client sends
Uris == {UriA, UriB, UriHttp, UriDotA}

\* the documents the client opens and closes: one of the Project, one that is
\* not a file
DocUris == {UriA, UriHttp}

\* rootUri arguments of initialize (None: no rootUri)
RootUris == {None, RootUri}

\* processId arguments of initialize (None: no processId)
ParentPid == "pid7"
ProcessIds == {None, ParentPid}

\* arguments of didChange: the URI of textDocument and the texts of
\* contentChanges
ChangeArgs == {<<UriA, <<"x">>>>, <<UriA, <<"y">>>>, <<UriB, <<"x">>>>,
               <<UriHttp, <<"x">>>>, <<UriA, <<>>>>}

\* text arguments of didOpen
OpenTexts == {"x"}

NoText == "NoText"

\* FileIds the Project reports diagnostics for
FileIdA == <<"a">>
CallbackFileIds == {FileIdA}

\* types.Diagnostic values and the lists the Project reports
Diag1 == [start |-> <<0, 0>>, end |-> <<0, 3>>, severity |-> 1,
          message |-> "m", code |-> "c"]
DiagLists == {<<>>, <<Diag1>>}

(***************************************************************************)
(* State                                                                   *)
(***************************************************************************)
VARIABLES
    project,         \* self.project: 0 for None, else an index into projects
    projects,        \* the Project instances constructed so far
    workspace,       \* self.workspace: URI -> index into entries
    entries,         \* the WorkspaceEntry objects allocated so far
    diagnostics,     \* self.diagnostics: FileId -> list of Diagnostic
    shutdown,        \* self._shutdown
    endpoint,        \* self._endpoint: "running" or "shutdown"
    disp,            \* the dispatcher thread: "idle", inside a handler, or
                     \* holding the exception a handler raised to it
    timers,          \* the threading.Timer objects debounce created
    debounce_timer,  \* debounced.debounce_timer: 0 (unset) or index into timers
    updates,         \* the Project.update calls, in call order
    callbacks,       \* the set_diagnostics calls in progress
    notes,           \* the publishDiagnostics notifications, in emit order
    watchdogs,       \* the watch_parent_process chains
    parentAlive,     \* whether the process ParentPid exists
    docLife,         \* per URI, the latest didOpen/didClose of the client
    probe            \* resolver calls made directly (resolver specification)

vars == <<project, projects, workspace, entries, diagnostics, shutdown, endpoint,
          disp, timers, debounce_timer, updates, callbacks, notes,
          watchdogs, parentAlive, docLife, probe>>

(***************************************************************************)
(* The Project collaborator (snooty.parser.Project), as far as the server  *)
(* uses it.  A Project instance is [truthy, source_path, monitoring].      *)
(***************************************************************************)
\* Project(root_path, backend): config.source_path is the root; the instance
\* watches the file system until stop_monitoring
NewProject(root_path) ==
    [truthy |-> TRUE, source_path |-> root_path, monitoring |-> TRUE]

\* the value None of self.project ("if not self.project" reads truthy)
NoProject == [truthy |-> FALSE, source_path |-> [root |-> 0, segs |-> <<>>],
              monitoring |-> FALSE]

\* Project.get_fileid(path): the path relative to the source root
get_fileid(P, path) ==
    LET sp == P.source_path
        n == Len(sp.segs)
    IN  IF /\ path.root = sp.root
           /\ Len(path.segs) >= n
           /\ SubSeq(path.segs, 1, n) = sp.segs
        THEN [err |-> None,
              fileid |-> PathStr([root |-> 0, segs |-> Drop(path.segs, n + 1)])]
        ELSE [err |-> "ProjectError", fileid |-> <<>>]

\* Project.get_full_path(fileid)
get_full_path(P, fileid) ==
    The({PathStr(p) : p \in {joinpath(P.source_path, PathOf(f)) : f \in {fileid}}})

\* Project.stop_monitoring()
stop_monitoring(P) == [P EXCEPT !.monitoring = FALSE]

(***************************************************************************)
(* The resolver.  P is self.project: NoProject or a Project instance.      *)
(***************************************************************************)
\* a resolver without the scheme check
uri_to_fileid_any_scheme(P, uri) ==
    IF ~P.truthy THEN [err |-> "TypeError", fileid |-> <<>>]
    ELSE The({The({get_fileid(P, path) :
                   path \in {resolve(joinpath(PathOf(parsed.netloc),
                                              PathOf(parsed.path)))}})
              : parsed \in {urlparse(uri)}})

\* (parsed and path are bound as values, so that each is computed once)
uri_to_fileid(P, uri) ==
    IF ~P.truthy THEN [err |-> "TypeError", fileid |-> <<>>]
    ELSE The({IF parsed.scheme # FileScheme
              THEN [err |-> "ValueError", fileid |-> <<>>]
              ELSE The({get_fileid(P, path) :
                        path \in {resolve(joinpath(PathOf(parsed.netloc),
                                                   PathOf(parsed.path)))}})
              : parsed \in {urlparse(uri)}})

fileid_to_uri(P, fileid) ==
    IF ~P.truthy THEN [err |-> "TypeError", uri |-> <<>>]
    ELSE [err |-> None,
          uri |-> FileSlashSlash \o
                  The({PathStr(p) :
                       p \in {joinpath(P.source_path, PathOf(f)) : f \in {fileid}}})]

\* self.project as a Project instance or NoProject
Proj == IF project = 0 THEN NoProject ELSE projects[project]

(***************************************************************************)
(* WorkspaceEntry                                                          *)
(***************************************************************************)
WorkspaceEntry(page_id, document_uri, diags) ==
    [page_id |-> page_id, document_uri |-> document_uri, diagnostics |-> diags]

\* WorkspaceEntry.create_lsp_diagnostics, applied to the entry's list
create_lsp_diagnostics(diags) ==
    [i \in 1..Len(diags) |->
        [range |-> [start |-> [line |-> diags[i].start[1],
                               character |-> diags[i].start[2]],
                    end |-> [line |-> diags[i].end[1],
                             character |-> diags[i].end[2]]],
         severity |-> diags[i].severity,
         message |-> diags[i].message]]

\* d with key k set to v (a dict assignment)
DictSet(d, k, v) == [x \in DOMAIN d \cup {k} |-> IF x = k THEN v ELSE d[x]]

\* a del that keeps the key
DictDelKeeps(d, k) == d

\* d with key k deleted (del d[k])
DictDel(d, k) == [x \in DOMAIN d \ {k} |-> d[x]]
EmptyDict == [x \in {} |-> None]

(***************************************************************************)
(* Initial state: LanguageServer.__init__                                  *)
(***************************************************************************)
Idle == [op |-> "idle", pid |-> None, err |-> None]
\* the handler raised err to the endpoint that called it
Raised(err) == [op |-> "raised", pid |-> None, err |-> err]
NoCallback == [pc |-> "idle", fileid |-> <<>>, diags |-> <<>>, uri |-> <<>>,
               item |-> 0, own |-> <<>>]
NoLife == [client |-> "none", done |-> "none"]

NoProbe == [kind |-> None, arg |-> <<>>, uri |-> [err |-> None, uri |-> <<>>],
            back |-> [err |-> None, fileid |-> <<>>], ret |-> <<>>]

Init ==
    /\ project = 0
    /\ projects = <<>>
    /\ workspace = EmptyDict
    /\ entries = <<>>
    /\ diagnostics = EmptyDict
    /\ shutdown = FALSE
    /\ endpoint = "running"
    /\ disp = Idle
    /\ timers = <<>>
    /\ debounce_timer = 0
    /\ updates = <<>>
    /\ callbacks = [k \in 1..MaxDiagCalls |-> NoCallback]
    /\ notes = <<>>
    /\ watchdogs = <<>>
    /\ parentAlive = TRUE
    /\ docLife = [u \in Uris |-> NoLife]
    /\ probe = NoProbe

sessionVars == <<project, projects, workspace, entries, diagnostics, shutdown,
                 endpoint, disp, timers, debounce_timer, updates,
                 callbacks, notes, watchdogs, parentAlive, docLife>>

(***************************************************************************)
(* initialize                                                              *)
(***************************************************************************)
\* threading.Thread(target=watch_parent_process).start(): a chain whose first
\* tick is due
StartWatchdog(ws) == Append(ws, [state |-> "pending", exits |-> 0, sawAlive |-> FALSE])

\* m_initialize with a rootUri, up to the call of Project.build
Initialize(processId, rootUri) ==
    /\ disp = Idle
    /\ rootUri # None
    /\ Len(projects) < MaxProjects
    /\ processId # None => Len(watchdogs) < MaxWatchdogs
    /\ projects' = Append(projects,
                          NewProject(PathOf(RemoveFirst(rootUri, FileSlashSlash))))
    /\ project' = Len(projects) + 1
    /\ disp' = [op |-> "initialize", pid |-> processId, err |-> None]
    /\ UNCHANGED <<workspace, entries, diagnostics, shutdown, endpoint,
                   timers, debounce_timer, updates, callbacks, notes, watchdogs,
                   parentAlive, docLife, probe>>

\* Project.build returns; m_initialize starts the watchdog and returns
InitializeReturn ==
    /\ disp.op = "initialize"
    /\ disp' = Idle
    /\ watchdogs' = IF disp.pid # None THEN StartWatchdog(watchdogs) ELSE watchdogs
    /\ UNCHANGED <<project, projects, workspace, entries, diagnostics, shutdown,
                   endpoint, timers, debounce_timer, updates, callbacks, notes,
                   parentAlive, docLife, probe>>

\* m_initialize without a rootUri: no Project is made
InitializeNoRoot(processId) ==
    /\ disp = Idle
    /\ processId # None => Len(watchdogs) < MaxWatchdogs
    /\ watchdogs' = IF processId # None THEN StartWatchdog(watchdogs) ELSE watchdogs
    /\ UNCHANGED <<project, projects, workspace, entries, diagnostics, shutdown,
                   endpoint, disp, timers, debounce_timer, updates, callbacks,
                   notes, parentAlive, docLife, probe>>

(***************************************************************************)
(* didOpen, didClose                                                       *)
(***************************************************************************)
Life(u, kind, done) ==
    [docLife EXCEPT ![u] = [client |-> kind,
                            done |-> IF done THEN kind ELSE @.done]]

\* self.project.update(path, text): the call, with the handler that made it
\* ("open", "close" or "change") and, for "change", the timer that ran it
Update(path, text, kind, timer) ==
    Append(updates, [proj |-> project, path |-> path, text |-> text,
                     kind |-> kind, timer |-> timer])

m_text_document__did_open(uri, text) ==
    /\ disp = Idle
    /\ LET r == uri_to_fileid(Proj, uri)
       IN  IF project = 0
           THEN /\ docLife' = Life(uri, "open", FALSE)
                /\ UNCHANGED <<workspace, entries, updates, disp>>
           ELSE IF r.err # None
           THEN /\ disp' = Raised(r.err)
                /\ docLife' = Life(uri, "open", FALSE)
                /\ UNCHANGED <<workspace, entries, updates>>
           ELSE /\ Len(entries) < MaxOpens
                /\ entries' = Append(entries, WorkspaceEntry(r.fileid, uri, <<>>))
                /\ workspace' = DictSet(workspace, uri, Len(entries) + 1)
                /\ updates' = Update(get_full_path(Proj, r.fileid), text, "open", 0)
                /\ disp' = [op |-> "did_open", pid |-> None, err |-> None]
                /\ docLife' = Life(uri, "open", TRUE)
    /\ UNCHANGED <<project, projects, diagnostics, shutdown, endpoint, timers,
                   debounce_timer, callbacks, notes, watchdogs, parentAlive, probe>>

m_text_document__did_close(uri) ==
    /\ disp = Idle
    /\ LET r == uri_to_fileid(Proj, uri)
       IN  IF project = 0
           THEN /\ docLife' = Life(uri, "close", FALSE)
                /\ UNCHANGED <<workspace, updates, disp>>
           ELSE IF r.err # None
           THEN /\ disp' = Raised(r.err)
                /\ docLife' = Life(uri, "close", FALSE)
                /\ UNCHANGED <<workspace, updates>>
           ELSE IF uri \notin DOMAIN workspace
           THEN /\ disp' = Raised("KeyError")
                /\ docLife' = Life(uri, "close", FALSE)
                /\ UNCHANGED <<workspace, updates>>
           ELSE /\ workspace' = DictDel(workspace, uri)
                /\ updates' = Update(get_full_path(Proj, r.fileid), NoText, "close", 0)
                /\ disp' = [op |-> "did_close", pid |-> None, err |-> None]
                /\ docLife' = Life(uri, "close", TRUE)
    /\ UNCHANGED <<project, projects, entries, diagnostics, shutdown, endpoint,
                   timers, debounce_timer, callbacks, notes, watchdogs,
                   parentAlive, probe>>

\* Project.update returns to m_text_document__did_open or __did_close
HandlerReturn ==
    /\ disp.op \in {"did_open", "did_close"}
    /\ disp' = Idle
    /\ UNCHANGED <<project, projects, workspace, entries, diagnostics, shutdown,
                   endpoint, timers, debounce_timer, updates, callbacks,
                   notes, watchdogs, parentAlive, docLife, probe>>

\* the endpoint that called the handler catches the exception and logs it;
\* the dispatcher thread goes on with the next message
HandlerRaise ==
    /\ disp.op = "raised"
    /\ disp' = Idle
    /\ UNCHANGED <<project, projects, workspace, entries, diagnostics, shutdown,
                   endpoint, timers, debounce_timer, updates, callbacks,
                   notes, watchdogs, parentAlive, docLife, probe>>

(***************************************************************************)
(* debounce and didChange.  A timer is the threading.Timer of one call of  *)
(* debounced: its arguments, the time it has waited, and its state         *)
(* "waiting" -> "cancelled" | "running" -> "finished".                     *)
(***************************************************************************)
\* a cancel that stops nothing
TimerCancelNothing(t) == t

\* Timer.cancel(): stops a timer that is still waiting, and only that
TimerCancel(t) ==
    IF t.state = "waiting" THEN [t EXCEPT !.state = "cancelled", !.elapsed = 0] ELSE t

\* a timer that does not wait
TimerExpiredAtOnce(t) == t.elapsed >= 0

\* Timer.run(): finished.wait(interval) has timed out
TimerExpired(t) == t.elapsed >= Window

\* a debounce with one timer per document: a call cancels the timer of the
\* call before it only when both name the same document
debounced_per_document(uri, changes) ==
    LET cancelled == IF debounce_timer = 0 \/ timers[debounce_timer].uri # uri
                     THEN timers
                     ELSE [timers EXCEPT ![debounce_timer] = TimerCancel(@)]
        timer == [uri |-> uri, changes |-> changes, elapsed |-> 0,
                  state |-> "waiting", result |-> None,
                  projAtCall |-> project # 0,
                  inWindow |-> debounce_timer # 0
                               /\ ~TimerExpired(timers[debounce_timer])]
    IN  Append(cancelled, timer)

\* debounced(*args): cancel debounce_timer, make and start the new Timer
debounced(uri, changes) ==
    LET cancelled == IF debounce_timer = 0 THEN timers
                     ELSE [timers EXCEPT ![debounce_timer] = TimerCancel(@)]
        timer == [uri |-> uri, changes |-> changes, elapsed |-> 0,
                  state |-> "waiting", result |-> None,
                  projAtCall |-> project # 0,
                  inWindow |-> debounce_timer # 0
                               /\ ~TimerExpired(timers[debounce_timer])]
    IN  Append(cancelled, timer)

\* the dispatcher's call of m_text_document__did_change (the debounced wrapper)
DidChange(uri, changes) ==
    /\ disp = Idle
    /\ Len(timers) < MaxChanges
    /\ timers' = debounced(uri, changes)
    /\ debounce_timer' = Len(timers) + 1
    /\ UNCHANGED <<project, projects, workspace, entries, diagnostics, shutdown,
                   endpoint, disp, updates, callbacks, notes, watchdogs,
                   parentAlive, docLife, probe>>

\* 100 ms pass for the timers that wait
Tick ==
    /\ \E i \in 1..Len(timers) : timers[i].state = "waiting" /\ ~TimerExpired(timers[i])
    /\ timers' = [i \in 1..Len(timers) |->
                    IF timers[i].state = "waiting" /\ ~TimerExpired(timers[i])
                    THEN [timers[i] EXCEPT !.elapsed = @ + 1]
                    ELSE timers[i]]
    /\ UNCHANGED <<project, projects, workspace, entries, diagnostics, shutdown,
                   endpoint, disp, debounce_timer, updates, callbacks,
                   notes, watchdogs, parentAlive, docLife, probe>>

\* the body of m_text_document__did_change, up to the call of Project.update:
\* how it ends ("ok": Project.update is called)
did_change_result(uri, changes) ==
    IF project = 0 THEN "noop"
    ELSE The({IF r.err # None THEN r.err
              ELSE IF changes = <<>> THEN "StopIteration"
              ELSE "ok" : r \in {uri_to_fileid(Proj, uri)}})

\* the timer thread wakes up and runs action(): the body of did_change
TimerFire(i) ==
    /\ i \in 1..Len(timers)
    /\ timers[i].state = "waiting"
    /\ TimerExpired(timers[i])
    /\ LET t == timers[i]
           res == did_change_result(t.uri, t.changes)
       IN  IF res = "ok"
           THEN /\ updates' = Update(get_full_path(Proj, uri_to_fileid(Proj, t.uri).fileid),
                                     t.changes[1], "change", i)
                /\ timers' = [timers EXCEPT ![i].state = "running", ![i].result = res]
           ELSE /\ timers' = [timers EXCEPT ![i].state = "finished", ![i].result = res]
                /\ UNCHANGED updates
    /\ UNCHANGED <<project, projects, workspace, entries, diagnostics, shutdown,
                   endpoint, disp, debounce_timer, callbacks, notes,
                   watchdogs, parentAlive, docLife, probe>>

\* Project.update returns to the timer thread, which ends
TimerReturn(i) ==
    /\ i \in 1..Len(timers)
    /\ timers[i].state = "running"
    /\ timers' = [timers EXCEPT ![i].state = "finished"]
    /\ UNCHANGED <<project, projects, workspace, entries, diagnostics, shutdown,
                   endpoint, disp, debounce_timer, updates, callbacks,
                   notes, watchdogs, parentAlive, docLife, probe>>

(***************************************************************************)
(* set_diagnostics, called by the Project through Backend.on_diagnostics   *)
(* from the Project's own context; one step per statement                  *)
(***************************************************************************)
ActiveCallbacks == {k \in 1..MaxDiagCalls : callbacks[k].pc # "idle"}

\* the call, and self.diagnostics[fileid] = diagnostics
SetDiagnosticsStart(k, fileid, diags) ==
    /\ project # 0
    /\ callbacks[k].pc = "idle"
    /\ \A j \in 1..(k - 1) : callbacks[j].pc # "idle"
    /\ Len(notes) + Cardinality(ActiveCallbacks) < MaxDiagCalls
    /\ diagnostics' = DictSet(diagnostics, fileid, diags)
    /\ callbacks' = [callbacks EXCEPT ![k] =
                        [NoCallback EXCEPT !.pc = "lookup", !.fileid = fileid,
                                           !.diags = diags]]
    /\ UNCHANGED <<project, projects, workspace, entries, shutdown, endpoint, disp,
                   timers, debounce_timer, updates, notes, watchdogs,
                   parentAlive, docLife, probe>>

\* uri = self.fileid_to_uri(fileid); workspace_item = self.workspace.get(uri),
\* or a new WorkspaceEntry that is not stored
SetDiagnosticsLookup(k) ==
    /\ callbacks[k].pc = "lookup"
    /\ LET uri == fileid_to_uri(Proj, callbacks[k].fileid).uri
       IN  callbacks' = [callbacks EXCEPT ![k].pc = "assign", ![k].uri = uri,
                            ![k].item = IF uri \in DOMAIN workspace
                                        THEN workspace[uri] ELSE 0]
    /\ UNCHANGED <<project, projects, workspace, entries, diagnostics, shutdown,
                   endpoint, disp, timers, debounce_timer, updates, notes,
                   watchdogs, parentAlive, docLife, probe>>

\* workspace_item.diagnostics = diagnostics
SetDiagnosticsAssign(k) ==
    /\ callbacks[k].pc = "assign"
    /\ IF callbacks[k].item = 0
       THEN /\ callbacks' = [callbacks EXCEPT ![k].pc = "notify",
                                              ![k].own = callbacks[k].diags]
            /\ UNCHANGED entries
       ELSE /\ callbacks' = [callbacks EXCEPT ![k].pc = "notify"]
            /\ entries' = [entries EXCEPT ![callbacks[k].item].diagnostics =
                                             callbacks[k].diags]
    /\ UNCHANGED <<project, projects, workspace, diagnostics, shutdown, endpoint,
                   disp, timers, debounce_timer, updates, notes, watchdogs,
                   parentAlive, docLife, probe>>

\* the params of the textDocument/publishDiagnostics notification of callback c
PublishParams(c) ==
    [uri |-> c.uri,
     diagnostics |-> create_lsp_diagnostics(IF c.item = 0 THEN c.own
                                            ELSE entries[c.item].diagnostics)]

\* self._endpoint.notify("textDocument/publishDiagnostics", ...)
SetDiagnosticsNotify(k) ==
    /\ callbacks[k].pc = "notify"
    /\ notes' = Append(notes,
                   [params |-> PublishParams(callbacks[k]),
                    entry |-> callbacks[k].item,
                    afterClose |-> /\ callbacks[k].uri \in Uris
                                   /\ docLife[callbacks[k].uri].done = "close"])
    /\ callbacks' = [callbacks EXCEPT ![k] = NoCallback]
    /\ UNCHANGED <<project, projects, workspace, entries, diagnostics, shutdown,
                   endpoint, disp, timers, debounce_timer, updates,
                   watchdogs, parentAlive, docLife, probe>>

(***************************************************************************)
(* shutdown, exit                                                          *)
(***************************************************************************)
\* an exit that leaves the Project alone
StopActiveSkipped(ps, p) == ps

\* self.project.stop_monitoring() under "if self.project"
StopActive(ps, p) == IF p # 0 THEN [ps EXCEPT ![p] = stop_monitoring(@)] ELSE ps

\* a shutdown that closes the endpoint as well
m_shutdown_closes ==
    /\ disp = Idle
    /\ shutdown' = TRUE
    /\ endpoint' = "shutdown"
    /\ UNCHANGED <<project, projects, workspace, entries, diagnostics,
                   disp, timers, debounce_timer, updates, callbacks, notes,
                   watchdogs, parentAlive, docLife, probe>>

m_shutdown ==
    /\ disp = Idle
    /\ shutdown' = TRUE
    /\ UNCHANGED <<project, projects, workspace, entries, diagnostics, endpoint,
                   disp, timers, debounce_timer, updates, callbacks, notes,
                   watchdogs, parentAlive, docLife, probe>>

\* the dispatcher's call of m_exit
m_exit ==
    /\ disp = Idle
    /\ endpoint' = "shutdown"
    /\ projects' = StopActive(projects, project)
    /\ UNCHANGED <<project, workspace, entries, diagnostics, shutdown, disp, timers,
                   debounce_timer, updates, callbacks, notes, watchdogs,
                   parentAlive, docLife, probe>>

\* LanguageServer.__exit__: m_shutdown(), then m_exit()
ContextExit ==
    /\ disp = Idle
    /\ shutdown' = TRUE
    /\ endpoint' = "shutdown"
    /\ projects' = StopActive(projects, project)
    /\ UNCHANGED <<project, workspace, entries, diagnostics, disp, timers,
                   debounce_timer, updates, callbacks, notes, watchdogs,
                   parentAlive, docLife, probe>>

(***************************************************************************)
(* watch_parent_process.  A chain is "pending" (its thread or its Timer is *)
(* started and the tick has not begun), "exiting" (inside m_exit, after    *)
(* the endpoint shutdown) or "probed" (past the probe and m_exit, before   *)
(* the new Timer is started).                                              *)
(***************************************************************************)
\* the process ParentPid ends
ParentDies ==
    /\ parentAlive
    /\ parentAlive' = FALSE
    /\ UNCHANGED <<project, projects, workspace, entries, diagnostics, shutdown,
                   endpoint, disp, timers, debounce_timer, updates,
                   callbacks, notes, watchdogs, docLife, probe>>

\* a tick begins: pid_exists(pid); when not, m_exit() starts with the
\* endpoint shutdown
WatchProbe(w) ==
    /\ watchdogs[w].state = "pending"
    /\ IF parentAlive
       THEN /\ watchdogs' = [watchdogs EXCEPT ![w].state = "probed",
                                              ![w].sawAlive = TRUE]
            /\ UNCHANGED endpoint
       ELSE /\ watchdogs[w].exits < MaxExits
            /\ watchdogs' = [watchdogs EXCEPT ![w].state = "exiting",
                                              ![w].exits = @ + 1]
            /\ endpoint' = "shutdown"
    /\ UNCHANGED <<project, projects, workspace, entries, diagnostics, shutdown,
                   disp, timers, debounce_timer, updates, callbacks,
                   notes, parentAlive, docLife, probe>>

\* the rest of m_exit on the watchdog thread: stop the monitoring of the
\* Project, if there is one
WatchExit(w) ==
    /\ watchdogs[w].state = "exiting"
    /\ projects' = StopActive(projects, project)
    /\ watchdogs' = [watchdogs EXCEPT ![w].state = "probed"]
    /\ UNCHANGED <<project, workspace, entries, diagnostics, shutdown, endpoint,
                   disp, timers, debounce_timer, updates, callbacks,
                   notes, parentAlive, docLife, probe>>

\* what the tick does after the probe (and after m_exit when the parent is
\* gone): threading.Timer(60, watch_parent_process).start()
AfterProbe(wd) == [wd EXCEPT !.state = "pending"]

WatchReschedule(w) ==
    /\ watchdogs[w].state = "probed"
    /\ watchdogs' = [watchdogs EXCEPT ![w] = AfterProbe(@)]
    /\ UNCHANGED <<project, projects, workspace, entries, diagnostics, shutdown,
                   endpoint, disp, timers, debounce_timer, updates,
                   callbacks, notes, parentAlive, docLife, probe>>

(***************************************************************************)
(* Direct calls of the resolver (by the Project's Backend, by tests)       *)
(***************************************************************************)
\* the characters of the FileIds enumerated: a letter, the path separator,
\* the dot, and the URI-reserved '#' and '?'
FileIdChars == {"a", "/", ".", "#", "?"}

\* the FileIds Project.get_fileid produces: relative paths in pathlib's
\* normal form, without ".." segments
FileIds ==
    {f \in UNION {[1..n -> FileIdChars] : n \in 1..MaxFileIdLen} :
        /\ PathOf(f).root = 0
        /\ PathOf(f).segs # <<>>
        /\ PathStr(PathOf(f)) = f
        /\ \A i \in 1..Len(PathOf(f).segs) : PathOf(f).segs[i] # DotDot}

\* uri_to_fileid(fileid_to_uri(fileid))
RoundTrip(fileid) ==
    /\ LET u == fileid_to_uri(Proj, fileid)
       IN  probe' = [kind |-> "roundtrip", arg |-> fileid, uri |-> u,
                     back |-> IF u.err = None THEN uri_to_fileid(Proj, u.uri)
                              ELSE NoProbe.back,
                     ret |-> <<>>]
    /\ UNCHANGED sessionVars

\* uri_to_fileid(uri)
UriToFileid(uri) ==
    /\ probe' = [kind |-> "uri_to_fileid", arg |-> uri, uri |-> NoProbe.uri,
                 back |-> uri_to_fileid(Proj, uri), ret |-> <<>>]
    /\ UNCHANGED sessionVars

\* initialize, then calls of the resolver
NextResolver ==
    \/ \E root \in RootUris : Initialize(None, root)
    \/ InitializeReturn
    \/ \E f \in FileIds : RoundTrip(f)
    \/ \E u \in Uris : UriToFileid(u)

(***************************************************************************)
(* The session                                                             *)
(***************************************************************************)
\* the dispatcher and the timer threads of debounce
NextDebounce ==
    \/ \E root \in RootUris : Initialize(None, root)
    \/ InitializeReturn
    \/ \E a \in ChangeArgs : DidChange(a[1], a[2])
    \/ Tick
    \/ \E i \in 1..Len(timers) : TimerFire(i)
    \/ \E i \in 1..Len(timers) : TimerReturn(i)

\* the dispatcher and the set_diagnostics callbacks of the Project, which
\* reports one list at a time
NextDocs ==
    \/ \E root \in RootUris : Initialize(None, root)
    \/ InitializeReturn
    \/ \E u \in DocUris, t \in OpenTexts : m_text_document__did_open(u, t)
    \/ \E u \in DocUris : m_text_document__did_close(u)
    \/ HandlerReturn
    \/ HandlerRaise
    \/ \E f \in CallbackFileIds, d \in DiagLists :
          ActiveCallbacks = {} /\ SetDiagnosticsStart(1, f, d)
    \/ \E k \in 1..MaxDiagCalls : SetDiagnosticsLookup(k)
    \/ \E k \in 1..MaxDiagCalls : SetDiagnosticsAssign(k)
    \/ \E k \in 1..MaxDiagCalls : SetDiagnosticsNotify(k)

\* the forms in which the client names the document of UriA in didOpen
OpenForms == {UriA, UriDotA}

\* didOpen and the set_diagnostics callbacks of a Project that reports from
\* several threads: the calls overlap with each other and with the dispatcher
NextDiagnostics ==
    \/ \E root \in RootUris : Initialize(None, root)
    \/ InitializeReturn
    \/ \E u \in OpenForms, t \in OpenTexts : m_text_document__did_open(u, t)
    \/ HandlerReturn
    \/ \E k \in 1..MaxDiagCalls, f \in CallbackFileIds, d \in DiagLists :
          SetDiagnosticsStart(k, f, d)
    \/ \E k \in 1..MaxDiagCalls : SetDiagnosticsLookup(k)
    \/ \E k \in 1..MaxDiagCalls : SetDiagnosticsAssign(k)
    \/ \E k \in 1..MaxDiagCalls : SetDiagnosticsNotify(k)

\* one document of a client that sends didChange only for a document it has
\* open and sends nothing after exit, with the timer threads of debounce
NextSession ==
    \/ \E root \in RootUris : endpoint = "running" /\ Initialize(None, root)
    \/ InitializeReturn
    \/ \E t \in OpenTexts :
           endpoint = "running" /\ m_text_document__did_open(UriA, t)
    \/ endpoint = "running" /\ m_text_document__did_close(UriA)
    \/ HandlerReturn
    \/ HandlerRaise
    \/ /\ endpoint = "running"
       /\ UriA \in DOMAIN workspace
       /\ DidChange(UriA, <<"y">>)
    \/ Tick
    \/ \E i \in 1..Len(timers) : TimerFire(i)
    \/ \E i \in 1..Len(timers) : TimerReturn(i)
    \/ m_exit

\* the lifecycle requests and the watchdog threads
NextLifecycle ==
    \/ \E pid \in ProcessIds, root \in RootUris : Initialize(pid, root)
    \/ InitializeReturn
    \/ \E pid \in ProcessIds : InitializeNoRoot(pid)
    \/ m_shutdown
    \/ m_exit
    \/ ContextExit
    \/ ParentDies
    \/ \E w \in 1..Len(watchdogs) : WatchProbe(w)
    \/ \E w \in 1..Len(watchdogs) : WatchExit(w)
    \/ \E w \in 1..Len(watchdogs) : WatchReschedule(w)

(***************************************************************************)
(* textDocument/resolve                                                    *)
(***************************************************************************)
\* index of the last '.' of name that starts a suffix (not the first and not
\* the last character), or 0
SuffixAt(name) ==
    IF \E i \in 2..(Len(name) - 1) : name[i] = "."
    THEN CHOOSE i \in 2..(Len(name) - 1) :
            name[i] = "." /\ \A j \in (i + 1)..(Len(name) - 1) : name[j] # "."
    ELSE 0

DotTxt == <<".", "t", "x", "t">>

\* PurePath.with_suffix(".txt"); pathlib raises ValueError for a path with
\* an empty name
with_suffix_txt(p) ==
    IF p.segs = <<>> THEN [err |-> "ValueError", path |-> p]
    ELSE LET name == p.segs[Len(p.segs)]
             i == SuffixAt(name)
             stem == IF i = 0 THEN name ELSE Take(name, i)
         IN  [err |-> None, path |-> [p EXCEPT !.segs[Len(p.segs)] = stem \o DotTxt]]

\* util.reroot_path(target, docpath, source_path)[1]: an absolute target is
\* taken under the source root, a relative one beside the document
reroot_path(target, docpath, source_path) ==
    LET beside == IF docpath.segs = <<>> THEN <<>>
                  ELSE Take(docpath.segs, Len(docpath.segs))
        rel == IF target.root > 0 THEN target.segs ELSE beside \o target.segs
    IN  resolve([root |-> source_path.root, segs |-> source_path.segs \o rel])

\* a resolve that joins the source root and fileName as paths
m_text_document__resolve_joined(P, fileName, docPath, resolveType) ==
    IF ~P.truthy THEN [err |-> None, ret |-> fileName]
    ELSE IF resolveType = "doc"
    THEN LET target == with_suffix_txt(PathOf(fileName))
         IN  IF target.err # None THEN [err |-> target.err, ret |-> <<>>]
             ELSE [err |-> None,
                   ret |-> PathStr(reroot_path(target.path, PathOf(docPath),
                                               P.source_path))]
    ELSE IF resolveType = "directive"
    THEN [err |-> None, ret |-> PathStr(joinpath(P.source_path, PathOf(fileName)))]
    ELSE [err |-> None, ret |-> fileName]

\* m_text_document__resolve: what it returns (ret) or raises (err)
m_text_document__resolve(P, fileName, docPath, resolveType) ==
    IF ~P.truthy THEN [err |-> None, ret |-> fileName]
    ELSE IF resolveType = "doc"
    THEN LET target == with_suffix_txt(PathOf(fileName))
         IN  IF target.err # None THEN [err |-> target.err, ret |-> <<>>]
             ELSE [err |-> None,
                   ret |-> PathStr(reroot_path(target.path, PathOf(docPath),
                                               P.source_path))]
    ELSE IF resolveType = "directive"
    THEN [err |-> None, ret |-> PathStr(P.source_path) \o fileName]
    ELSE [err |-> None, ret |-> fileName]

\* arguments of textDocument/resolve
FileNames == {<<"/", "a">>, <<"a", ".", "x">>, <<"a">>, <<>>}
DocPaths == {<<"d", "/", "p">>, <<"p">>}
ResolveTypes == {"doc", "directive", "other"}

\* the dispatcher's call of m_text_document__resolve
Resolve(fileName, docPath, resolveType) ==
    /\ disp = Idle
    /\ LET r == m_text_document__resolve(Proj, fileName, docPath, resolveType)
       IN  probe' = [kind |-> "resolve",
                     arg |-> <<fileName, docPath, <<resolveType>>>>,
                     uri |-> NoProbe.uri,
                     back |-> [err |-> r.err, fileid |-> <<>>],
                     ret |-> r.ret]
    /\ UNCHANGED sessionVars

\* resolve requests in a session with a Project or without, with an open
\* document or without, before and after shutdown
NextResolve ==
    \/ \E root \in RootUris : Initialize(None, root)
    \/ InitializeReturn
    \/ \E t \in OpenTexts : m_text_document__did_open(UriA, t)
    \/ HandlerReturn
    \/ m_shutdown
    \/ \E f \in FileNames, d \in DocPaths, t \in ResolveTypes : Resolve(f, d, t)

\* the URIs the client sends whose scheme is not "file"
InvalidUris == {u \in Uris : urlparse(u).scheme # FileScheme}

\* every way a non-file URI gets to uri_to_fileid: the three document
\* handlers (with the timer threads of debounce, none of which gets to
\* Project.update) and direct calls, beside the didOpen of a file
NextInvalidUri ==
    \/ \E root \in RootUris : Initialize(None, root)
    \/ InitializeReturn
    \/ \E u \in DocUris, t \in OpenTexts : m_text_document__did_open(u, t)
    \/ \E u \in InvalidUris : m_text_document__did_close(u)
    \/ HandlerReturn
    \/ HandlerRaise
    \/ \E u \in InvalidUris : DidChange(u, <<"x">>)
    \/ Tick
    \/ \E i \in 1..Len(timers) : TimerFire(i)
    \/ \E u \in InvalidUris : UriToFileid(u)

\* the whole session
Next ==
    \/ NextDebounce
    \/ NextDocs
    \/ NextLifecycle
    \/ NextResolver
    \/ NextInvalidUri
    \/ NextResolve
    \/ NextDiagnostics
    \/ NextSession

Spec == Init /\ [][Next]_vars
SpecDebounce == Init /\ [][NextDebounce]_vars
SpecDocs == Init /\ [][NextDocs]_vars
SpecLifecycle == Init /\ [][NextLifecycle]_vars
SpecResolver == Init /\ [][NextResolver]_vars
SpecInvalidUri == Init /\ [][NextInvalidUri]_vars
SpecResolve == Init /\ [][NextResolve]_vars
SpecDiagnostics == Init /\ [][NextDiagnostics]_vars
SpecSession == Init /\ [][NextSession]_vars

\* time passes and every started timer thread gets to run
FairDebounce ==
    /\ SpecDebounce
    /\ WF_vars(Tick)
    /\ \A i \in 1..MaxChanges : WF_vars(TimerFire(i)) /\ WF_vars(TimerReturn(i))

(***************************************************************************)
(* Properties                                                              *)
(***************************************************************************)
\* the Project.update calls made by the timer of the i-th didChange
UpdatesOf(i) == {k \in 1..Len(updates) : updates[k].kind = "change" /\ updates[k].timer = i}

\* the i-th didChange names a document of the Project and has a change: its
\* deferred body gets to Project.update
WellFormed(i) == did_change_result(timers[i].uri, timers[i].changes) = "ok"

\* C1 (debounce coalescing): when a didChange arrives inside the quiet window
\* of the one before it, the earlier one is never forwarded to the Project;
\* an update the Project gets from a didChange carries the document and the
\* text of that didChange, comes after its whole quiet window, and comes once;
\* and a well-formed last didChange of a burst whose timer has run has
\* produced exactly one update.
DebounceCoalescing ==
    \A i \in 1..Len(timers) :
        /\ (i < Len(timers) /\ timers[i + 1].inWindow) => UpdatesOf(i) = {}
        /\ Cardinality(UpdatesOf(i)) <= 1
        /\ \A k \in UpdatesOf(i) :
              /\ updates[k].text = timers[i].changes[1]
              /\ updates[k].path =
                    get_full_path(Proj, uri_to_fileid(Proj, timers[i].uri).fileid)
              /\ timers[i].elapsed >= Window
        /\ (timers[i].state \in {"running", "finished"} /\ timers[i].result = "ok")
              => Cardinality(UpdatesOf(i)) = 1

\* a burst of two didChange with different texts, the second inside the quiet
\* window of the first, and the second forwarded
DebounceCoalescingWitness ==
    /\ Len(timers) = 2
    /\ timers[2].inWindow
    /\ timers[1].uri = timers[2].uri
    /\ timers[1].changes # timers[2].changes
    /\ timers[1].changes # <<>>
    /\ timers[1].state = "cancelled"
    /\ timers[2].state = "finished"
    /\ Cardinality(UpdatesOf(2)) = 1
    /\ Len(updates) = 1

\* C2 (debounce quiescence): with a Project, a well-formed didChange that no
\* other didChange follows is eventually forwarded to the Project; it is
\* forwarded at most once, and only after its quiet window.
DebounceQuiescence ==
    /\ \A i \in 1..MaxChanges :
          (i <= Len(timers) /\ timers[i].state = "waiting" /\ timers[i].projAtCall
             /\ WellFormed(i))
          ~> (Len(timers) > i \/ Cardinality(UpdatesOf(i)) = 1)
    /\ [](\A i \in 1..Len(timers) :
            /\ Cardinality(UpdatesOf(i)) <= 1
            /\ UpdatesOf(i) # {} => timers[i].elapsed >= Window)

\* a single didChange, forwarded
DebounceQuiescenceWitness ==
    /\ project # 0
    /\ Len(timers) = 1
    /\ timers[1].projAtCall
    /\ timers[1].state = "finished"
    /\ Cardinality(UpdatesOf(1)) = 1

\* C3 (lifecycle exclusion), as claimed: no publishDiagnostics notification is
\* emitted for a URI whose latest processed didOpen/didClose is a didClose.
NoPublishAfterClose ==
    \A n \in 1..Len(notes) : ~notes[n].afterClose

\* C4 (watchdog termination), as claimed: a watchdog that saw the parent alive
\* and then called exit has called it once and has no further tick scheduled.
WatchdogTerminal ==
    \A w \in 1..Len(watchdogs) :
        (watchdogs[w].sawAlive /\ watchdogs[w].exits >= 1)
            => (watchdogs[w].exits = 1 /\ watchdogs[w].state # "pending")

\* C5 (open-set invariant), as claimed: the workspace map has an entry for a
\* URI exactly when the client's latest didOpen/didClose for it is a didOpen,
\* whether or not a Project was active when it arrived.
OpenSetClientView ==
    \A u \in Uris : (u \in DOMAIN workspace) <=> (docLife[u].client = "open")

\* a step of a set_diagnostics call
SetDiagnosticsStep == callbacks' # callbacks

\* C5 (open-set invariant), as the code has it: the workspace map has an entry
\* for a URI exactly when the latest didOpen/didClose for it that the server
\* handled to the end (with a Project, without an error) is a didOpen; and no
\* step of set_diagnostics changes the keys of the workspace map.
OpenSetProcessed ==
    /\ [](\A u \in Uris : (u \in DOMAIN workspace) <=> (docLife[u].done = "open"))
    /\ [][SetDiagnosticsStep => DOMAIN workspace' = DOMAIN workspace]_vars

\* a document that was opened before initialize (no entry came of it), then
\* opened, closed and opened again with a Project; a didOpen of a non-file
\* URI that raised; and a set_diagnostics call that has run
OpenSetProcessedWitness ==
    /\ UriA \in DOMAIN workspace
    /\ workspace[UriA] = 2
    /\ docLife[UriA].done = "open"
    /\ docLife[UriHttp].client = "open"
    /\ UriHttp \notin DOMAIN workspace
    /\ Len(notes) >= 1
    /\ \E k \in 1..Len(updates) : updates[k].kind = "close"

\* C6 (events before initialization are no-ops), as claimed: every update the
\* Project gets from a didChange comes from a didChange received while there
\* was a Project.
PreInitChangeNeverForwarded ==
    \A k \in 1..Len(updates) :
        updates[k].kind = "change" => timers[updates[k].timer].projAtCall

\* the notifications emitted for uri, by position in notes
NotesOf(uri) == {n \in 1..Len(notes) : notes[n].params.uri = uri}

\* the latest of them
LastNoteOf(uri) == CHOOSE n \in NotesOf(uri) : \A m \in NotesOf(uri) : m <= n

\* C7 (idempotent publish), as claimed: while no set_diagnostics call is in
\* progress, the diagnostics of the WorkspaceEntry of an open URI for which
\* something was published are the list most recently published for it.
EntryEqualsLastPublished ==
    ActiveCallbacks = {} =>
        \A u \in DOMAIN workspace :
            NotesOf(u) # {} =>
                create_lsp_diagnostics(entries[workspace[u]].diagnostics)
                    = notes[LastNoteOf(u)].params.diagnostics

\* C8 (resolver round-trip), as claimed: with a Project, for every FileId f,
\* uri_to_fileid(fileid_to_uri(f)) returns f.
RoundTripIdentity ==
    (probe.kind = "roundtrip" /\ probe.uri.err = None)
        => probe.back = [err |-> None, fileid |-> probe.arg]

\* a didOpen or didClose of uri
OpenOrClose(uri) ==
    \/ \E t \in OpenTexts : m_text_document__did_open(uri, t)
    \/ m_text_document__did_close(uri)

\* C9 (InvalidUri is never swallowed), as claimed: a didOpen or didClose of a
\* non-file URI raises ValueError to its caller, in any session state.
InvalidUriAlwaysRaised ==
    [][\A u \in InvalidUris : OpenOrClose(u) => disp' = Raised("ValueError")]_vars

\* C9 (InvalidUri is never swallowed), as the code has it.  For a non-file
\* URI: with a Project, uri_to_fileid, didOpen and didClose raise ValueError
\* to their caller; without one, uri_to_fileid raises TypeError and didOpen
\* and didClose return silently.  didChange returns to its caller without an
\* error in every state; its deferred body ends on the timer thread, with
\* ValueError when there is a Project at that time and silently when there is
\* none.  None of these steps changes the workspace map or calls
\* Project.update.
InvalidUriOutcome ==
    [][\A u \in InvalidUris :
          /\ OpenOrClose(u) =>
                /\ disp' = IF project = 0 THEN Idle ELSE Raised("ValueError")
                /\ UNCHANGED <<workspace, updates>>
          /\ UriToFileid(u) =>
                /\ probe'.back.err = IF project = 0 THEN "TypeError" ELSE "ValueError"
                /\ UNCHANGED <<workspace, updates>>
          /\ DidChange(u, <<"x">>) =>
                /\ disp' = Idle
                /\ UNCHANGED <<workspace, updates>>
          /\ \A i \in 1..Len(timers) :
                (timers[i].uri = u /\ TimerFire(i)) =>
                    /\ timers'[i].state = "finished"
                    /\ timers'[i].result = IF project = 0 THEN "noop" ELSE "ValueError"
                    /\ UNCHANGED <<workspace, updates>>]_vars

\* with a Project and an open document, a didOpen of a non-file URI has
\* raised ValueError to the dispatcher, the deferred body of a didChange of it
\* has ended with ValueError, and a direct call has raised ValueError; the
\* only update is the one of the open document
InvalidUriOutcomeWitness ==
    /\ project # 0
    /\ disp = Raised("ValueError")
    /\ docLife[UriHttp].client = "open"
    /\ \E i \in 1..Len(timers) :
          /\ timers[i].uri = UriHttp
          /\ timers[i].state = "finished"
          /\ timers[i].result = "ValueError"
    /\ probe.kind = "uri_to_fileid"
    /\ probe.arg = UriHttp
    /\ probe.back.err = "ValueError"
    /\ UriA \in DOMAIN workspace
    /\ Len(updates) = 1

\* a step that ends a run of the exit path: m_exit or __exit__ on the
\* dispatcher, the end of m_exit on a watchdog thread
ExitStep ==
    \/ m_exit
    \/ ContextExit
    \/ \E w \in 1..Len(watchdogs) : WatchExit(w)

\* C10 (exit from any state): whenever the exit path has run, the endpoint is
\* shut down and the active Project, if there is one, is not monitoring.
ExitReleases ==
    [][ExitStep => /\ endpoint' = "shutdown"
                   /\ project' # 0 => ~projects'[project'].monitoring]_vars

\* the exit path has run on a watchdog thread, without a shutdown before it,
\* and has stopped the monitoring of the active Project
ExitReleasesWitness ==
    /\ ~shutdown
    /\ endpoint = "shutdown"
    /\ project # 0
    /\ ~projects[project].monitoring
    /\ \E w \in 1..Len(watchdogs) :
          watchdogs[w].exits >= 1 /\ watchdogs[w].state = "probed"

\* C11 (shutdown only marks): a shutdown step sets the flag and leaves the
\* endpoint, the project handle, the Project, the workspace map and the
\* diagnostics map as they are; and the endpoint changes only in a step of
\* the exit path (m_exit or __exit__ on the dispatcher, m_exit on a watchdog
\* thread).
ShutdownOnlyMarks ==
    [][/\ m_shutdown =>
             /\ shutdown'
             /\ UNCHANGED <<endpoint, project, projects, workspace, entries,
                            diagnostics>>
       /\ endpoint' # endpoint =>
             \/ m_exit
             \/ ContextExit
             \/ \E w \in 1..Len(watchdogs) : WatchProbe(w)]_vars

\* shutdown has run with a Project: the endpoint runs and the Project still
\* monitors
ShutdownOnlyMarksWitness ==
    /\ shutdown
    /\ endpoint = "running"
    /\ project # 0
    /\ projects[project].monitoring

\* C12 (unopened documents), as claimed: with a Project, the deferred body of
\* a didChange and a didClose for a file URI that has no WorkspaceEntry leave
\* the workspace map as it is and forward no update to the Project.
UnopenedNotForwarded ==
    [][/\ \A i \in 1..Len(timers) :
             (/\ TimerFire(i)
              /\ project # 0
              /\ timers[i].uri \notin InvalidUris
              /\ timers[i].uri \notin DOMAIN workspace)
                 => UNCHANGED <<workspace, updates>>
       /\ \A u \in Uris \ InvalidUris :
             (/\ m_text_document__did_close(u)
              /\ project # 0
              /\ u \notin DOMAIN workspace)
                 => UNCHANGED <<workspace, updates>>]_vars

\* the watchdog chains that have not found the parent dead
LiveChains == {w \in 1..Len(watchdogs) : watchdogs[w].exits = 0}

\* C13 (watchdog arming), as claimed: after any number of initialize calls at
\* most one chain of watchdog ticks is alive.
OneWatchdogChain == Cardinality(LiveChains) <= 1

\* C14 (resolvePath is a pure query): a resolve step leaves the project
\* handle, the Project, the workspace map, the diagnostics map and the
\* shutdown flag as they are, whatever its arguments; it returns fileName
\* when there is no Project or when resolveType is neither "doc" nor
\* "directive", and for "directive" the source root followed by fileName.
ResolveIsPureQuery ==
    [][\A f \in FileNames, d \in DocPaths, t \in ResolveTypes :
          Resolve(f, d, t) =>
              /\ UNCHANGED <<project, projects, workspace, entries, diagnostics,
                             shutdown>>
              /\ (project = 0 \/ t \notin {"doc", "directive"})
                    => (probe'.back.err = None /\ probe'.ret = f)
              /\ (project # 0 /\ t = "directive")
                    => (/\ probe'.back.err = None
                        /\ probe'.ret = PathStr(projects[project].source_path) \o f)]_vars

\* a "directive" resolve of "/a" with a Project, an open document and the
\* shutdown flag set has returned "/r/a"
ResolveIsPureQueryWitness ==
    /\ project # 0
    /\ shutdown
    /\ UriA \in DOMAIN workspace
    /\ probe.kind = "resolve"
    /\ probe.arg = <<<<"/", "a">>, <<"p">>, <<"directive">>>>
    /\ probe.ret = <<"/", "r", "/", "a">>

\* the threads that are inside a writer of the session state or inside a
\* call into the Project: timer threads in the deferred didChange, the
\* dispatcher in a request handler, set_diagnostics calls, watchdog threads
\* in m_exit
WritersInProgress ==
    Cardinality({i \in 1..Len(timers) : timers[i].state = "running"})
    + (IF disp.op \in {"initialize", "did_open", "did_close"} THEN 1 ELSE 0)
    + Cardinality(ActiveCallbacks)
    + Cardinality({w \in 1..Len(watchdogs) : watchdogs[w].state = "exiting"})

\* C15 (serialized writers), as claimed: no two writers are in progress at
\* the same time.
SerializedWriters == WritersInProgress <= 1

\* C16 (no stale overwrite of diagnostics), as claimed: when two
\* set_diagnostics calls have worked on the WorkspaceEntry of an open URI and
\* no call is in progress, the payload published last for the URI, the
\* diagnostics of the entry and the diagnostics map's list for the entry's
\* file are the same list.
LastWriterWins ==
    ActiveCallbacks = {} =>
        \A u \in DOMAIN workspace :
            LET e == entries[workspace[u]]
                mine == {n \in NotesOf(u) : notes[n].entry = workspace[u]}
            IN  (Cardinality(mine) >= 2 /\ mine = NotesOf(u)) =>
                    /\ e.page_id \in DOMAIN diagnostics
                    /\ notes[LastNoteOf(u)].params.diagnostics
                          = create_lsp_diagnostics(e.diagnostics)
                    /\ e.diagnostics = diagnostics[e.page_id]

\* C18 (ordering of Project updates per document), as claimed: when the
\* latest notification handled for the document is a didClose, the last
\* update the Project has got for it is the close.
CloseIsLastUpdate ==
    (docLife[UriA].done = "close" /\ updates # <<>>)
        => updates[Len(updates)].kind = "close"

\* C19 (diagnostics reach the opened entry), as claimed: the URI that
\* set_diagnostics computes from the FileId stored in a WorkspaceEntry is the
\* key under which didOpen stored the entry.
EntryKeyRoundTrip ==
    project # 0 =>
        \A u \in DOMAIN workspace :
            fileid_to_uri(Proj, entries[workspace[u]].page_id).uri = u

\* C17 (shared debounce timer): when a didChange for one document arrives
\* inside the quiet window of a didChange for another document, the earlier
\* one is cancelled and never forwarded to the Project, and the later one is
\* forwarded at most once, with its own document and text, and exactly once
\* when its timer has run its body to Project.update.
SharedDebounceTimer ==
    \A i \in 1..(Len(timers) - 1) :
        (timers[i + 1].inWindow /\ timers[i].uri # timers[i + 1].uri) =>
            /\ timers[i].state = "cancelled"
            /\ UpdatesOf(i) = {}
            /\ Cardinality(UpdatesOf(i + 1)) <= 1
            /\ (timers[i + 1].state \in {"running", "finished"}
                  /\ timers[i + 1].result = "ok")
                  => Cardinality(UpdatesOf(i + 1)) = 1
            /\ \A k \in UpdatesOf(i + 1) :
                  /\ updates[k].text = timers[i + 1].changes[1]
                  /\ updates[k].path =
                        get_full_path(Proj, uri_to_fileid(Proj, timers[i + 1].uri).fileid)

\* a didChange of file:///r/a, then inside its window one of file:///r/b: the
\* first is cancelled, the Project has got the second and nothing else
SharedDebounceTimerWitness ==
    /\ Len(timers) = 2
    /\ timers[1].uri = UriA
    /\ timers[1].projAtCall
    /\ timers[2].uri = UriB
    /\ timers[2].inWindow
    /\ timers[1].state = "cancelled"
    /\ timers[2].state = "finished"
    /\ Len(updates) = 1
    /\ updates[1].timer = 2
    /\ updates[1].path = <<"/", "r", "/", "b">>

\* C20 (exited is terminal), as claimed: once exit has run (the endpoint is
\* shut down), no step forwards an update to the Project or changes the
\* workspace map.
ExitedIsTerminal ==
    [][endpoint = "shutdown" => UNCHANGED <<updates, workspace>>]_vars

====
